---------------------------- MODULE Spec2Model ----------------------------
(***************************************************************************)
(* SimpleVehicleControl (scenario_runner actor control): the per-frame     *)
(* run_step tick, the velocity computation _set_new_velocity and the       *)
(* obstacle-sensor callback _on_obstacle, which CARLA delivers on its own  *)
(* thread.                                                                 *)
(*                                                                         *)
(* Units.  Locations are in tenths of a distance unit (0.5 is 5, 3.0 is    *)
(* 30), so that the thresholds of run_step are integers; norms are         *)
(* compared exactly.  Obstacle distances and speeds are in whole units.    *)
(* Speeds and commands are exact rationals [n, d] in lowest terms.         *)
(* The road of the map oracle is the segment y = 0, 0 <= x <= road_end.    *)
(***************************************************************************)
EXTENDS Integers, Sequences, FiniteSets, TLC

VARIABLES
    waypoints,                \* self._waypoints (external list, BasicControl)
    generated_waypoint_list,  \* self._generated_waypoint_list
    reached_goal,             \* self._reached_goal
    last_update,              \* self._last_update (None or a time)
    obstacle_distance,        \* self._obstacle_distance
    obstacle_actor,           \* self._obstacle_actor
    consider_obstacles,       \* self._consider_obstacles
    proximity_threshold,      \* self._proximity_threshold
    target_speed,             \* self._target_speed (nominal speed)
    road_end,                 \* the map: last x of the road
    actor_location,           \* simulator: location of self._actor
    actor_yaw,                \* simulator: rotation.yaw of self._actor
    actor_velocity,           \* simulator: get_velocity() of self._actor
    game_time,                \* GameTime.get_time()
    pc,                       \* position of the tick inside run_step
    ticked,                   \* run_step was called in the current frame
    d_test,                   \* value read by line 234 in this tick
    d_used,                   \* value read by line 235 in this tick
    actor_used,               \* value read by line 239 (x operand) in this tick
    actor_used_y,             \* value read by line 239 (y operand) in this tick
    desired_speed,            \* local target_speed of _set_new_velocity
    cb,                       \* callback thread: None or the event between lines 118 and 119
    sensed,                   \* the obstacle sensor has delivered the event of this frame
    velocity_cmd,             \* argument of set_target_velocity in this frame
    angular_cmd,              \* argument of set_target_angular_velocity in this frame
    target_cmd,               \* next_location of the command of this frame
    error,                    \* exception raised by run_step ("none" if none)
    used_event,               \* whether the reads of lines 235 and 239 are of one event
    dropped,                  \* waypoints removed by lines 201-202 in this tick
    last_tick,                \* time of the run_step call of the previous frame (0: none)
    heading_error,            \* heading difference of lines 260/263, before the wrap
    wrapped_yaw,              \* the same after lines 265-271 (None before)
    attach_camera,            \* args['attach_camera']
    camera,                   \* self._camera
    obstacle_sensor,          \* self._obstacle_sensor
    cv_image,                 \* self._cv_image
    actor,                    \* self._actor
    destroyed,                \* simulator: destroy() calls received by each sensor
    resets,                   \* calls of reset so far
    window,                   \* the image cv2.imshow showed last (None before)
    sample,                   \* CARLA_Data: the record of the dataset at index
    batch_read_number,        \* CARLA_Data: self._batch_read_number
    data,                     \* the dict __getitem__ returned (None before)
    data_error                \* exception raised by __getitem__ ("none" if none)

\* the controller in the simulation
controller ==
    <<waypoints, generated_waypoint_list, reached_goal, last_update,
      obstacle_distance, obstacle_actor, consider_obstacles,
      proximity_threshold, target_speed, road_end, actor_location,
      actor_yaw, actor_velocity, game_time, pc, ticked, d_test, d_used,
      actor_used, actor_used_y, desired_speed, cb, sensed, velocity_cmd,
      angular_cmd, target_cmd, error, used_event, dropped, last_tick>>

\* the heading wrap of _set_new_velocity taken alone
heading == <<heading_error, wrapped_yaw>>

\* the sensors and the actor the controller owns, and their teardown
owned == <<attach_camera, camera, obstacle_sensor, cv_image, actor, destroyed,
           resets, window>>

\* the dataset of data.py and the call of __getitem__
dataset == <<sample, batch_read_number, data, data_error>>

\* what the steps of the controller in the simulation leave alone
rest == <<heading, owned, dataset>>

vars == <<controller, rest>>

----------------------------------------------------------------------------
(* Bounds of the model *)

MaxTime == 3          \* game time runs from 1 to MaxTime
MaxWaypoints == 2     \* longest external waypoint list supplied
MaxResets == 2        \* calls of reset in succession
MaxYaw == 721         \* heading differences wrapped alone: -MaxYaw .. MaxYaw
MaxCoord == 5         \* coordinates of the future waypoints: -MaxCoord .. MaxCoord
MaxCommand == 8       \* command codes of the samples: -MaxCommand .. MaxCommand

(* Program constants *)

Infinity == 1000000       \* float('inf')
DropDistance == 5         \* 0.5
GeneratedReach == 20      \* 2.0
ExternalReach == 40       \* 4.0
LookAhead == 30           \* 3.0
BufferSize == 50

\* an optional value: None is << >>, a value v is << v >>
None == << >>
Some(v) == << v >>
Get(o) == o[1]

\* self._obstacle_actor = None
NoActor == "None"

\* self._camera = None, self._obstacle_sensor = None
NoSensor == "None"

----------------------------------------------------------------------------
(* Inputs *)

Loc(x, y, z) == [x |-> x, y |-> y, z |-> z]

\* states the simulator may put the actor in (ego speeds 5 and 0)
ActorStates ==
    { [location |-> Loc(0, 0, 0),  yaw |-> 0,    velocity |-> [x |-> 3, y |-> 4]],
      [location |-> Loc(27, 0, 0), yaw |-> 0,    velocity |-> [x |-> 0, y |-> 0]],
      [location |-> Loc(57, 0, 0), yaw |-> -170, velocity |-> [x |-> 3, y |-> 4]] }

\* locations of externally supplied waypoints
WaypointLocations ==
    { Loc(0, 0, 5), Loc(30, 0, 0) }

Lists(n) == UNION { [1..k -> WaypointLocations] : k \in 1..n }

\* the obstacle actors and their velocity vectors: speeds 0 and 5
OtherActors == { "walker", "car" }
OtherVelocity(a) == IF a = "walker" THEN [x |-> 0, y |-> 0] ELSE [x |-> 3, y |-> 4]

ObstacleEvents ==
    { [distance |-> 0, other_actor |-> "walker"],
      [distance |-> 4, other_actor |-> "walker"],
      [distance |-> 4, other_actor |-> "car"] }

ProximityThresholds == { 0, 2, Infinity }
TargetSpeeds == { 0, 8 }
RoadEnds == { 20, 100 }
TimeSteps == { 1, 2 }

----------------------------------------------------------------------------
(* Arithmetic *)

Abs(a) == IF a < 0 THEN -a ELSE a

RECURSIVE GCD(_, _)
GCD(a, b) == IF b = 0 THEN a ELSE GCD(b, a % b)

\* the rational n / d (d # 0) in lowest terms with a positive denominator
Rat(n, d) ==
    LET g == GCD(Abs(n), Abs(d))
        s == IF d < 0 THEN -1 ELSE 1
    IN  [n |-> (s * n) \div g, d |-> (s * d) \div g]

Zero == [n |-> 0, d |-> 1]

Max(a, b) == IF a >= b THEN a ELSE b

RatMax(a, b) == IF a.n * b.d >= b.n * a.d THEN a ELSE b
RatLess(a, b) == a.n * b.d < b.n * a.d

\* math.sqrt on the perfect squares the inputs produce
Sqrt(n) == CHOOSE r \in 0..n : r * r = n

\* math.degrees(math.atan2(y, x)) on the directions the inputs produce
Atan2Deg(y, x) ==
    CASE y = 0 /\ x >= 0 -> 0
      [] y = 0 /\ x < 0  -> 180
      [] x = 0 /\ y > 0  -> 90
      [] x = 0 /\ y < 0  -> -90

\* carla.Location.distance(a, b) < DropDistance (3D distance)
Closer(a, b, r) ==
    (a.x - b.x) * (a.x - b.x) + (a.y - b.y) * (a.y - b.y)
        + (a.z - b.z) * (a.z - b.z) < r * r

----------------------------------------------------------------------------
(* The map oracle (CarlaDataProvider.get_map()) on the straight road *)

\* get_waypoint(location): the road point nearest to the location
GetWaypoint(location) ==
    Loc(IF location.x < 0 THEN 0
        ELSE IF location.x > road_end THEN road_end ELSE location.x, 0, 0)

\* map_wp.next(distance): the successors of a road point, none at the road end
NextWaypoints(map_wp, distance) ==
    IF map_wp.x + distance <= road_end
    THEN << Loc(map_wp.x + distance, 0, 0) >>
    ELSE << >>

\* get_waypoint(location).transform.rotation.yaw: the road heads along +x
RoadYaw(location) == 0

----------------------------------------------------------------------------
(* run_step, lines 176-209: choice of the target *)

\* the while loop of lines 186-192 with <= 50 as its condition
RECURSIVE GenerateMutant(_, _)
GenerateMutant(list, map_wp) ==
    IF Len(list) <= BufferSize
    THEN LET map_wps == NextWaypoints(map_wp, LookAhead)
         IN  IF map_wps # << >>
             THEN GenerateMutant(Append(list, map_wps[1]), map_wps[1])
             ELSE list
    ELSE list

\* the while loop of lines 186-192
RECURSIVE Generate(_, _)
Generate(list, map_wp) ==
    IF Len(list) < BufferSize
    THEN LET map_wps == NextWaypoints(map_wp, LookAhead)
         IN  IF map_wps # << >>
             THEN Generate(Append(list, map_wps[1]), map_wps[1])
             ELSE list
    ELSE list

\* lines 181-192: the generated list after the generation step
Generated ==
    LET map_wp == IF generated_waypoint_list = << >>
                  THEN GetWaypoint(actor_location)
                  ELSE GetWaypoint(generated_waypoint_list[Len(generated_waypoint_list)])
    IN  Generate(generated_waypoint_list, map_wp)

DropCloseMutant(list, location) ==
    SelectSeq(list, LAMBDA w : ~Closer(w, location, DropDistance))

\* the while loop of lines 201-202
RECURSIVE DropClose(_, _)
DropClose(list, location) ==
    IF list # << >> /\ Closer(list[1], location, DropDistance)
    THEN DropClose(Tail(list), location)
    ELSE list

----------------------------------------------------------------------------
(* _set_new_velocity, lines 226-282 *)

\* math.sqrt(v.x**2 + v.y**2), lines 237-239
Speed(v) == Sqrt(v.x * v.x + v.y * v.y)

SlowerMutant(current_speed_other, current_speed) ==
    current_speed_other <= current_speed

StopSpeedMutant == [n |-> 1, d |-> 1]

AdaptedSpeedMutant(distance, current_speed, current_speed_other, elapsed) ==
    LET dv == current_speed - current_speed_other
        acceleration == Rat(-(dv * dv), 2 * distance)
    IN  Rat(acceleration.n * elapsed + current_speed * acceleration.d,
            acceleration.d)

\* line 234: the obstacle is within the proximity threshold
Within(distance, threshold) == distance < threshold

\* line 240: the obstacle is slower than the actor
Slower(current_speed_other, current_speed) ==
    current_speed_other < current_speed

\* line 244: target_speed = 0
StopSpeed == Zero

\* lines 241-242: the decelerated speed
AdaptedSpeed(distance, current_speed, current_speed_other, elapsed) ==
    LET dv == current_speed - current_speed_other
        acceleration == Rat(-(dv * dv), 2 * distance)
    IN  RatMax(Rat(acceleration.n * elapsed + current_speed * acceleration.d,
                   acceleration.d), Zero)

\* line 248 (x and y of next_location - location of the actor)
Direction(next_location) ==
    [x |-> next_location.x - actor_location.x,
     y |-> next_location.y - actor_location.y]

\* line 249
DirectionNorm(direction) ==
    Sqrt(direction.x * direction.x + direction.y * direction.y)

\* lines 250-251
Velocity(direction, direction_norm, speed) ==
    [x |-> Rat(direction.x * speed.n, direction_norm * speed.d),
     y |-> Rat(direction.y * speed.n, direction_norm * speed.d)]

ZeroVelocityMutant == [x |-> [n |-> 1, d |-> 1], y |-> Zero]

\* carla.Vector3D(0, 0, 0), line 170
ZeroVelocity == [x |-> Zero, y |-> Zero]

\* lines 259-263 with the waypoint heading on both branches
DeltaYawMutant(next_location, direction) ==
    RoadYaw(next_location) - actor_yaw

\* lines 259-263
DeltaYaw(next_location, direction) ==
    IF waypoints # << >>
    THEN Atan2Deg(direction.y, direction.x) - actor_yaw
    ELSE RoadYaw(next_location) - actor_yaw

WrapYawMutant(yaw) ==
    IF yaw > 180 THEN yaw - 360
    ELSE IF yaw < -180 THEN yaw + 360 ELSE yaw

\* lines 265-271
WrapYaw(delta_yaw) ==
    LET d1 == IF Abs(delta_yaw) > 360 THEN delta_yaw % 360 ELSE delta_yaw
    IN  IF d1 > 180 THEN d1 - 360
        ELSE IF d1 < -180 THEN d1 + 360 ELSE d1

\* lines 273-277 (direction_norm is in tenths of a unit)
AngularVelocity(delta_yaw, direction_norm, speed) ==
    IF speed = Zero
    THEN Zero
    ELSE Rat(delta_yaw * speed.n * 10, direction_norm * speed.d)

\* the target of the tick: the argument of _set_new_velocity (lines 194, 205)
NextLocation ==
    IF waypoints # << >> THEN waypoints[1] ELSE generated_waypoint_list[1]

----------------------------------------------------------------------------
(* The state after __init__ (lines 77-107), in the first frame *)

InitOn(road_ends) ==
    /\ waypoints = << >>
    /\ generated_waypoint_list = << >>
    /\ reached_goal = FALSE
    /\ last_update = None
    /\ obstacle_distance = Infinity
    /\ obstacle_actor = NoActor
    /\ consider_obstacles \in BOOLEAN
    /\ proximity_threshold \in
           IF consider_obstacles THEN ProximityThresholds ELSE { Infinity }
    /\ target_speed \in TargetSpeeds
    /\ road_end \in road_ends
    /\ \E state \in ActorStates :
           /\ actor_location = state.location
           /\ actor_yaw = state.yaw
           /\ actor_velocity = state.velocity
    /\ game_time = 1
    /\ pc = "idle"
    /\ ticked = FALSE
    /\ d_test = None
    /\ d_used = None
    /\ actor_used = NoActor
    /\ actor_used_y = NoActor
    /\ desired_speed = None
    /\ cb = None
    /\ sensed = FALSE
    /\ velocity_cmd = None
    /\ angular_cmd = None
    /\ target_cmd = None
    /\ error = "none"
    /\ used_event = "none"
    /\ dropped = 0
    /\ last_tick = 0

\* on the roads of the simulation
InitController == InitOn(RoadEnds)

\* the heading wrap is not taken alone
InitHeading ==
    /\ heading_error = 0
    /\ wrapped_yaw = None

\* lines 84-107: the sensors spawned by __init__
InitOwned ==
    /\ camera = IF attach_camera THEN "camera" ELSE NoSensor
    /\ obstacle_sensor =
           IF consider_obstacles THEN "obstacle_sensor" ELSE NoSensor
    /\ cv_image = None
    /\ actor = "actor"
    /\ destroyed = [s \in {"camera", "obstacle_sensor"} |-> 0]
    /\ resets = 0
    /\ window = None

\* no dataset is read
InitNoDataset ==
    /\ sample = << >>
    /\ batch_read_number = 0
    /\ data = None
    /\ data_error = "none"

\* a controller without the debug camera
Init ==
    /\ InitController
    /\ InitHeading
    /\ attach_camera = FALSE
    /\ InitOwned
    /\ InitNoDataset

config == <<consider_obstacles, proximity_threshold, target_speed, road_end>>
simulator == <<actor_location, actor_yaw, actor_velocity, game_time>>
sensor == <<obstacle_distance, obstacle_actor, cb, sensed>>
locals == <<d_test, d_used, actor_used, actor_used_y, desired_speed,
            used_event, dropped>>
commands == <<velocity_cmd, angular_cmd, target_cmd>>

----------------------------------------------------------------------------
(* _on_obstacle, lines 109-119, on the sensor's thread *)

\* lines 116-118: a non-empty event arrives and its distance is stored
OnObstacleDistance ==
    /\ UNCHANGED rest
    /\ error = "none"
    /\ consider_obstacles
    /\ cb = None
    /\ ~sensed
    /\ ~(ticked /\ pc = "idle")
    /\ \E event \in ObstacleEvents :
           /\ obstacle_distance' = event.distance
           /\ cb' = Some(event)
    /\ sensed' = TRUE
    /\ UNCHANGED <<waypoints, generated_waypoint_list, reached_goal,
                   last_update, obstacle_actor, config, simulator, pc,
                   ticked, locals, commands, error, last_tick>>

IgnoredMutant(event) == FALSE

\* line 116: if not event
Ignored(event) == event = None

\* lines 116-117: an empty event (None) arrives and is ignored
OnObstacleEmpty ==
    /\ UNCHANGED rest
    /\ error = "none"
    /\ consider_obstacles
    /\ cb = None
    /\ ~sensed
    /\ ~(ticked /\ pc = "idle")
    /\ IF Ignored(None)
       THEN UNCHANGED error
       ELSE \* line 118: None has no distance
            error' = "AttributeError line 118"
    /\ sensed' = TRUE
    /\ UNCHANGED <<waypoints, generated_waypoint_list, reached_goal,
                   last_update, obstacle_distance, obstacle_actor, cb, config,
                   simulator, pc, ticked, locals, commands, last_tick>>

\* line 119: the actor of the same event is stored
OnObstacleActor ==
    /\ UNCHANGED rest
    /\ error = "none"
    /\ cb # None
    /\ obstacle_actor' = Get(cb).other_actor
    /\ cb' = None
    /\ sensed' = sensed
    /\ used_event' = CASE used_event = "pending" -> "stored"
                        [] used_event = "stored" -> "overwritten"
                        [] used_event = "x_same" -> "x_overwritten"
                        [] OTHER -> used_event
    /\ UNCHANGED <<waypoints, generated_waypoint_list, reached_goal,
                   last_update, obstacle_distance, config, simulator, pc,
                   ticked, d_test, d_used, actor_used, actor_used_y,
                   desired_speed, dropped, commands, error, last_tick>>

----------------------------------------------------------------------------
(* BasicControl.update_waypoints: an external waypoint list is supplied *)

UpdateWaypoints ==
    /\ UNCHANGED rest
    /\ error = "none"
    /\ pc = "idle" /\ ~ticked
    /\ waypoints = << >>
    /\ waypoints' \in Lists(MaxWaypoints)
    /\ UNCHANGED <<generated_waypoint_list, reached_goal, last_update, config,
                   simulator, sensor, ticked, pc, locals, commands, error,
                   last_tick>>

----------------------------------------------------------------------------
(* The simulator advances one frame: the actor moves, game time passes *)

SimStep ==
    /\ UNCHANGED rest
    /\ error = "none"
    /\ pc = "idle"
    /\ ticked
    /\ cb = None
    /\ \E dt \in TimeSteps :
           /\ game_time + dt <= MaxTime
           /\ game_time' = game_time + dt
    /\ \E state \in ActorStates :
           /\ actor_location' = state.location
           /\ actor_yaw' = state.yaw
           /\ actor_velocity' = state.velocity
    /\ ticked' = FALSE
    /\ d_test' = None
    /\ d_used' = None
    /\ actor_used' = NoActor
    /\ actor_used_y' = NoActor
    /\ desired_speed' = None
    /\ used_event' = "none"
    /\ velocity_cmd' = None
    /\ angular_cmd' = None
    /\ target_cmd' = None
    /\ sensed' = FALSE
    /\ dropped' = 0
    /\ last_tick' = game_time
    /\ UNCHANGED <<waypoints, generated_waypoint_list, reached_goal,
                   last_update, config, obstacle_distance, obstacle_actor,
                   cb, pc, error>>

----------------------------------------------------------------------------
(* run_step, lines 149-209 *)

\* lines 226-230: entry of _set_new_velocity
EnterSetNewVelocity ==
    /\ desired_speed' = Some(Rat(target_speed, 1))
    /\ last_update' = IF last_update = None \/ Get(last_update) = 0
                      THEN Some(game_time) ELSE last_update
    /\ pc' = "l232"
    /\ error' = error

\* an exception leaves run_step
Raise(exception) ==
    /\ error' = exception
    /\ pc' = "raised"

\* lines 164-166 with cv2.waitKey(0), which waits for a key
DisplayMutant ==
    /\ cv_image = None
    /\ UNCHANGED rest

\* lines 164-166: the frame of the debug camera is shown, if there is one
Display ==
    /\ window' = IF cv_image # None THEN cv_image ELSE window
    /\ UNCHANGED <<heading, dataset, attach_camera, camera, obstacle_sensor,
                   cv_image, actor, destroyed, resets>>

\* lines 168-172: the goal was reached, stop
RunStepGoal ==
    /\ Display
    /\ error = "none" /\ pc = "idle" /\ ~ticked
    /\ reached_goal
    /\ velocity_cmd' = Some(ZeroVelocity)
    /\ ticked' = TRUE
    /\ UNCHANGED <<waypoints, generated_waypoint_list, reached_goal,
                   last_update, config, simulator, sensor, pc, locals,
                   angular_cmd, target_cmd, error, last_tick>>

\* lines 176-194: no external waypoints, extend the generated list and
\* call _set_new_velocity with its head
RunStepFree ==
    /\ Display
    /\ error = "none" /\ pc = "idle" /\ ~ticked
    /\ ~reached_goal
    /\ waypoints = << >>
    /\ generated_waypoint_list' = Generated
    /\ IF Generated = << >>
       THEN \* line 194: index 0 of an empty list
            Raise("IndexError line 194") /\ UNCHANGED <<desired_speed, last_update>>
       ELSE EnterSetNewVelocity
    /\ ticked' = TRUE
    /\ UNCHANGED <<waypoints, reached_goal, config, simulator, sensor, d_test,
                   d_used, actor_used, actor_used_y, used_event, dropped,
                   commands, last_tick>>

\* lines 197-205: external waypoints, drop the close ones and call
\* _set_new_velocity with the first one left
RunStepRoute ==
    /\ Display
    /\ error = "none" /\ pc = "idle" /\ ~ticked
    /\ ~reached_goal
    /\ waypoints # << >>
    /\ waypoints' = DropClose(waypoints, actor_location)
    /\ IF DropClose(waypoints, actor_location) = << >>
       THEN \* line 205: index 0 of an empty list
            Raise("IndexError line 205") /\ UNCHANGED <<desired_speed, last_update>>
       ELSE EnterSetNewVelocity
    /\ dropped' = Len(waypoints) - Len(DropClose(waypoints, actor_location))
    /\ ticked' = TRUE
    /\ UNCHANGED <<generated_waypoint_list, reached_goal, config, simulator,
                   sensor, d_test, d_used, actor_used, actor_used_y,
                   used_event, commands, last_tick>>

----------------------------------------------------------------------------
(* _set_new_velocity, lines 232-244: the reads of the obstacle reading *)

\* lines 232-234
CheckThreshold ==
    /\ UNCHANGED rest
    /\ pc = "l232"
    /\ IF consider_obstacles
       THEN /\ d_test' = Some(obstacle_distance)
            /\ pc' = IF Within(obstacle_distance, proximity_threshold)
                     THEN "l235" ELSE "l247"
       ELSE /\ pc' = "l247"
            /\ UNCHANGED d_test
    /\ UNCHANGED <<waypoints, generated_waypoint_list, reached_goal,
                   last_update, config, simulator, sensor, ticked, d_used,
                   actor_used, actor_used_y, desired_speed, used_event,
                   dropped, commands, error, last_tick>>

\* lines 235-236 and 243-244
ReadDistance ==
    /\ UNCHANGED rest
    /\ pc = "l235"
    /\ d_used' = Some(obstacle_distance)
    /\ used_event' = IF cb = None THEN "stored" ELSE "pending"
    /\ IF Max(obstacle_distance, 0) > 0
       THEN pc' = "l238" /\ UNCHANGED desired_speed
       ELSE pc' = "l247" /\ desired_speed' = Some(StopSpeed)
    /\ UNCHANGED <<waypoints, generated_waypoint_list, reached_goal,
                   last_update, config, simulator, sensor, ticked, d_test,
                   actor_used, actor_used_y, dropped, commands, error,
                   last_tick>>

\* lines 238-239, first operand: self._obstacle_actor.get_velocity().x
ReadActorX ==
    /\ UNCHANGED rest
    /\ pc = "l238"
    /\ actor_used' = obstacle_actor
    /\ used_event' = IF used_event = "stored" THEN "x_same" ELSE "torn"
    /\ IF obstacle_actor = NoActor
       THEN \* line 239: None has no get_velocity
            Raise("AttributeError line 239")
       ELSE pc' = "l239" /\ UNCHANGED error
    /\ UNCHANGED <<waypoints, generated_waypoint_list, reached_goal,
                   last_update, config, simulator, sensor, ticked, d_test,
                   d_used, actor_used_y, desired_speed, dropped, commands,
                   last_tick>>

\* line 239, second operand, and lines 240-242
ReadActorY ==
    /\ UNCHANGED rest
    /\ pc = "l239"
    /\ actor_used_y' = obstacle_actor
    /\ used_event' = IF used_event = "x_same" THEN "same" ELSE "torn"
    /\ LET distance == Max(Get(d_used), 0)
           current_speed == Speed(actor_velocity)
           current_speed_other ==
               Sqrt(OtherVelocity(actor_used).x * OtherVelocity(actor_used).x
                    + OtherVelocity(obstacle_actor).y * OtherVelocity(obstacle_actor).y)
       IN  desired_speed' =
               IF Slower(current_speed_other, current_speed)
               THEN Some(AdaptedSpeed(distance, current_speed,
                                      current_speed_other,
                                      game_time - Get(last_update)))
               ELSE desired_speed
    /\ pc' = "l247"
    /\ UNCHANGED <<waypoints, generated_waypoint_list, reached_goal,
                   last_update, config, simulator, sensor, ticked, d_test,
                   d_used, actor_used, dropped, commands, error, last_tick>>

----------------------------------------------------------------------------
(* _set_new_velocity, lines 246-282, and the advance of run_step *)

\* lines 195-196: the generated list after a command at direction_norm
AdvanceGenerated(list, direction_norm) ==
    IF direction_norm < GeneratedReach THEN Tail(list) ELSE list

\* lines 206-207 with the slice [:-1], which removes the last waypoint
AdvanceLastMutant(list, direction_norm) ==
    IF direction_norm < ExternalReach
    THEN SubSeq(list, 1, Len(list) - 1) ELSE list

\* lines 206-207 with the threshold of the generated list
AdvanceExternalMutant(list, direction_norm) ==
    IF direction_norm < GeneratedReach THEN Tail(list) ELSE list

\* lines 206-207: the external list after a command at direction_norm
AdvanceExternal(list, direction_norm) ==
    IF direction_norm < ExternalReach THEN Tail(list) ELSE list

GoalAfterMutant(list, direction_norm) == direction_norm < ExternalReach

\* lines 206-209: the goal is reached when the pop empties the external list
GoalAfter(list, direction_norm) ==
    direction_norm < ExternalReach /\ Tail(list) = << >>

SetNewVelocity ==
    /\ UNCHANGED rest
    /\ pc = "l247"
    /\ LET next_location == NextLocation
           direction == Direction(next_location)
           direction_norm == DirectionNorm(direction)
       IN  IF direction_norm = 0
           THEN \* line 250: float division by zero
                /\ Raise("ZeroDivisionError line 250")
                /\ UNCHANGED <<waypoints, generated_waypoint_list,
                               reached_goal, last_update, commands>>
           ELSE /\ velocity_cmd' = Some(Velocity(direction, direction_norm,
                                                 Get(desired_speed)))
                /\ angular_cmd' =
                       Some(AngularVelocity(
                                WrapYaw(DeltaYaw(next_location, direction)),
                                direction_norm, Get(desired_speed)))
                /\ target_cmd' = Some(next_location)
                /\ last_update' = Some(game_time)
                /\ IF waypoints = << >>
                   THEN /\ generated_waypoint_list' =
                               AdvanceGenerated(generated_waypoint_list,
                                                direction_norm)
                        /\ UNCHANGED <<waypoints, reached_goal>>
                   ELSE /\ waypoints' = AdvanceExternal(waypoints, direction_norm)
                        /\ reached_goal' = GoalAfter(waypoints, direction_norm)
                        /\ UNCHANGED generated_waypoint_list
                /\ pc' = "idle"
                /\ UNCHANGED error
    /\ UNCHANGED <<config, simulator, sensor, ticked, locals,
                   last_tick>>

----------------------------------------------------------------------------

Next ==
    \/ OnObstacleDistance
    \/ OnObstacleEmpty
    \/ OnObstacleActor
    \/ UpdateWaypoints
    \/ SimStep
    \/ RunStepGoal
    \/ RunStepFree
    \/ RunStepRoute
    \/ CheckThreshold
    \/ ReadDistance
    \/ ReadActorX
    \/ ReadActorY
    \/ SetNewVelocity

Spec == Init /\ [][Next]_vars

----------------------------------------------------------------------------
(* reset, lines 136-147: the teardown of a controller that has run *)

ClearedMutant(owned_sensor) == owned_sensor

\* lines 142 and 145: the reference after the sensor was destroyed
Cleared(owned_sensor) == NoSensor

\* lines 140-141 and 143-144: destroy() is called on a sensor that is set
DestroyCalls(owned_sensor) == IF owned_sensor # NoSensor THEN 1 ELSE 0

\* the controller ticks in a simulation with and without the debug camera
InitReset ==
    /\ InitController
    /\ InitHeading
    /\ target_speed = 8
    /\ road_end = 100
    /\ proximity_threshold = Infinity
    /\ attach_camera \in BOOLEAN
    /\ InitOwned
    /\ InitNoDataset

\* lines 136-147, called between two frames
Reset ==
    /\ error = "none"
    /\ pc = "idle" /\ ~ticked
    /\ resets < MaxResets
    /\ resets' = resets + 1
    /\ camera' = IF camera # NoSensor THEN Cleared(camera) ELSE camera
    /\ obstacle_sensor' = IF obstacle_sensor # NoSensor
                          THEN Cleared(obstacle_sensor) ELSE obstacle_sensor
    /\ destroyed' =
           [s \in {"camera", "obstacle_sensor"} |->
               destroyed[s]
               + DestroyCalls(IF s = "camera" THEN camera
                              ELSE obstacle_sensor)]
    /\ \E is_alive \in BOOLEAN :
           actor' = IF actor # NoActor /\ is_alive THEN NoActor ELSE actor
    /\ UNCHANGED <<controller, heading, attach_camera, cv_image, window,
                   dataset>>

\* the scheduler ticks the controller until the teardown begins
NextReset ==
    \/ resets = 0 /\ Next
    \/ Reset

SpecReset == InitReset /\ [][NextReset]_vars

----------------------------------------------------------------------------
(* Route following: an external list was supplied, the nominal speed is    *)
(* positive, obstacles are not considered, and between two ticks the actor *)
(* moves with the velocity the tick commanded (set_target_velocity)        *)

InitFollow ==
    /\ InitController
    /\ InitHeading
    /\ attach_camera = FALSE
    /\ InitOwned
    /\ InitNoDataset
    /\ ~consider_obstacles
    /\ target_speed = 8
    /\ road_end = 100

\* BasicControl.update_waypoints, before the first tick
Supply ==
    /\ game_time = 1
    /\ UpdateWaypoints

\* the displacement, in tenths of a unit, of a velocity component over dt
Displacement(v, dt) == (v.n * 10 * dt) \div v.d

\* the simulator advances one frame: the actor has the commanded velocity
Move ==
    /\ UNCHANGED rest
    /\ error = "none"
    /\ pc = "idle"
    /\ ticked
    /\ waypoints # << >> \/ reached_goal
    /\ \E dt \in TimeSteps :
           /\ game_time + dt <= MaxTime
           /\ game_time' = game_time + dt
           /\ actor_location' =
                  Loc(actor_location.x + Displacement(Get(velocity_cmd).x, dt),
                      actor_location.y + Displacement(Get(velocity_cmd).y, dt),
                      actor_location.z)
    /\ actor_velocity' = [x |-> Get(velocity_cmd).x.n \div Get(velocity_cmd).x.d,
                          y |-> Get(velocity_cmd).y.n \div Get(velocity_cmd).y.d]
    /\ ticked' = FALSE
    /\ d_test' = None
    /\ d_used' = None
    /\ actor_used' = NoActor
    /\ actor_used_y' = NoActor
    /\ desired_speed' = None
    /\ used_event' = "none"
    /\ velocity_cmd' = None
    /\ angular_cmd' = None
    /\ target_cmd' = None
    /\ sensed' = FALSE
    /\ dropped' = 0
    /\ last_tick' = game_time
    /\ UNCHANGED <<waypoints, generated_waypoint_list, reached_goal,
                   last_update, config, obstacle_distance, obstacle_actor,
                   cb, pc, error, actor_yaw>>

NextFollow ==
    \/ Supply
    \/ RunStepGoal
    \/ RunStepRoute
    \/ CheckThreshold
    \/ SetNewVelocity
    \/ Move

SpecFollow == InitFollow /\ [][NextFollow]_vars

----------------------------------------------------------------------------
(* The debug camera, lines 103-107 and 121-134: a controller with or       *)
(* without the camera ticks in the simulation while frames arrive          *)

\* the frame of the camera: a pixel in the order blue, green, red, alpha
Images == { <<1, 2, 3, 255>> }

\* lines 130-134: the alpha channel is cut, the channels are reversed, and
\* cv2.cvtColor swaps the first and the third channel
Frame(image) ==
    LET cut == SubSeq(image, 1, 3)
        reversed == << cut[3], cut[2], cut[1] >>
    IN  << reversed[3], reversed[2], reversed[1] >>

InitCamera ==
    /\ InitController
    /\ InitHeading
    /\ consider_obstacles
    /\ target_speed = 8
    /\ road_end = 100
    /\ proximity_threshold = Infinity
    /\ attach_camera \in BOOLEAN
    /\ InitOwned
    /\ InitNoDataset

\* lines 121-134: _on_camera_update(image), on the thread of the sensor
OnCameraUpdate ==
    /\ camera # NoSensor
    /\ \E image \in { None } \cup { Some(i) : i \in Images } :
           cv_image' = IF image = None THEN cv_image
                       ELSE Some(Frame(Get(image)))
    /\ UNCHANGED <<controller, heading, dataset, attach_camera, camera,
                   obstacle_sensor, actor, destroyed, resets, window>>

NextCamera ==
    \/ Next
    \/ OnCameraUpdate

SpecCamera == InitCamera /\ [][NextCamera]_vars

----------------------------------------------------------------------------
(* Free drive on a road long enough for the buffer of 50 generated         *)
(* waypoints to fill (lines 181-192), and on the road of 10.0 that ends    *)
(* before it does; obstacles are not considered                            *)

\* the ends of the roads: 10.0 and 160.0
LongRoads == { 100, 1600 }

InitBuffer ==
    /\ InitOn(LongRoads)
    /\ ~consider_obstacles
    /\ target_speed = 8
    /\ InitHeading
    /\ attach_camera = FALSE
    /\ InitOwned
    /\ InitNoDataset

NextBuffer ==
    \/ UpdateWaypoints
    \/ SimStep
    \/ RunStepGoal
    \/ RunStepFree
    \/ RunStepRoute
    \/ CheckThreshold
    \/ SetNewVelocity

SpecBuffer == InitBuffer /\ [][NextBuffer]_vars

----------------------------------------------------------------------------
(* The heading wrap of lines 265-271 taken alone, on every heading         *)
(* difference of -MaxYaw .. MaxYaw degrees                                 *)

\* a controller that has not ticked; the difference of lines 260/263
InitWrap ==
    /\ InitController
    /\ ~consider_obstacles
    /\ target_speed = 0
    /\ road_end = 20
    /\ actor_location = Loc(0, 0, 0)
    /\ heading_error \in -MaxYaw..MaxYaw
    /\ wrapped_yaw = None
    /\ attach_camera = FALSE
    /\ InitOwned
    /\ InitNoDataset

\* lines 265-271
Wrap ==
    /\ wrapped_yaw = None
    /\ wrapped_yaw' = Some(WrapYaw(heading_error))
    /\ UNCHANGED <<controller, heading_error, owned, dataset>>

SpecWrap == InitWrap /\ [][Wrap]_vars

----------------------------------------------------------------------------
(* CARLA_Data.__getitem__ of e2e_driving/data.py: the ground-truth future  *)
(* waypoints in the frame of the ego vehicle and the one-hot vector of the *)
(* high-level command.  Headings are whole quarter turns, for which the    *)
(* cosine and the sine are the integers -1, 0 and 1; coordinates are       *)
(* integers.  The image, the speed and the target point of the sample are  *)
(* left out.                                                               *)

\* np.cos and np.sin of a whole number of quarter turns
Cos4(turns) == CASE turns % 4 = 0 -> 1
                 [] turns % 4 = 1 -> 0
                 [] turns % 4 = 2 -> -1
                 [] turns % 4 = 3 -> 0

Sin4(turns) == CASE turns % 4 = 0 -> 0
                 [] turns % 4 = 1 -> 1
                 [] turns % 4 = 2 -> 0
                 [] turns % 4 = 3 -> -1

\* lines 87-90: the rotation built without the quarter turn added
RotationMutant(ego_theta) ==
    << << Cos4(ego_theta), -Sin4(ego_theta) >>,
       << Sin4(ego_theta),  Cos4(ego_theta) >> >>

\* lines 87-90: R, the rotation by pi/2 + ego_theta
Rotation(ego_theta) ==
    << << Cos4(1 + ego_theta), -Sin4(1 + ego_theta) >>,
       << Sin4(1 + ego_theta),  Cos4(1 + ego_theta) >> >>

\* line 93 with R.dot in place of R.T.dot
TransposeMutant(R) == R

\* line 93: R.T
Transpose(R) == << << R[1][1], R[2][1] >>, << R[1][2], R[2][2] >> >>

\* line 93: .dot of a 2x2 matrix and a vector
Dot(M, v) == << M[1][1] * v[1] + M[1][2] * v[2],
                M[2][1] * v[1] + M[2][2] * v[2] >>

\* lines 92-93: a future waypoint in the frame of the ego vehicle; the
\* relative vector holds the difference of y first and of x second
LocalCommandPoint(future_x, future_y, ego_x, ego_y, ego_theta) ==
    Dot(Transpose(Rotation(ego_theta)),
        << future_y - ego_y, future_x - ego_x >>)

\* to_world_frame: the non-transposed rotation, then the agent position
\* added back, in the component order of the relative vector (y, x)
ToWorldFrame(local, ego_x, ego_y, ego_theta) ==
    LET world == Dot(Rotation(ego_theta), local)
    IN  [x |-> world[2] + ego_x, y |-> world[1] + ego_y]

\* lines 130-133 without the decrement of line 133
ShiftedMutant(command) == IF command < 0 THEN 4 ELSE command

\* lines 130-133: negative codes become LANEFOLLOW, then zero-based
Shifted(command) == (IF command < 0 THEN 4 ELSE command) - 1

\* line 134: the assertion
InRange(command) == command \in 0..5

\* lines 135-136: cmd_one_hot, its zero-based index i at position i + 1
OneHot(command) == [i \in 1..6 |-> IF i = command + 1 THEN 1 ELSE 0]

\* the command codes the docstring of lines 121-127 lists
CommandCodes == { -1, 1, 2, 3, 4, 5, 6 }

\* the samples read: ego positions, headings (None is nan), straight future
\* tracks of four waypoints, command codes
EgoPositions == { [x |-> 0, y |-> 0], [x |-> 1, y |-> -2], [x |-> -3, y |-> 2] }

Thetas == { None } \cup { Some(turns) : turns \in -1..3 }

Tracks ==
    { [i \in 1..4 |-> [x |-> x + (i - 1) * step[1], y |-> y + (i - 1) * step[2]]] :
        x \in -MaxCoord..MaxCoord, y \in -MaxCoord..MaxCoord,
        step \in { <<0, 1>>, <<1, 0>> } }

Commands == -MaxCommand..MaxCommand

\* a dataset with one sample, not read yet; the controller has not ticked
InitData ==
    /\ InitController
    /\ ~consider_obstacles
    /\ target_speed = 0
    /\ road_end = 20
    /\ actor_location = Loc(0, 0, 0)
    /\ InitHeading
    /\ attach_camera = FALSE
    /\ InitOwned
    /\ \E ego \in EgoPositions, theta \in Thetas, track \in Tracks,
          command \in Commands :
           sample = [x |-> ego.x, y |-> ego.y, theta |-> theta,
                     future_x |-> [i \in 1..4 |-> track[i].x],
                     future_y |-> [i \in 1..4 |-> track[i].y],
                     command |-> command]
    /\ batch_read_number = 0
    /\ data = None
    /\ data_error = "none"

\* lines 58-142: __getitem__(index)
GetItem ==
    /\ data = None
    /\ data_error = "none"
    /\ LET ego_theta == IF sample.theta = None THEN 0 ELSE Get(sample.theta)
           local_points ==
               [i \in 1..4 |->
                   LocalCommandPoint(sample.future_x[i], sample.future_y[i],
                                     sample.x, sample.y, ego_theta)]
           command == Shifted(sample.command)
       IN  /\ sample' = [sample EXCEPT !.theta = Some(ego_theta)]
           /\ IF InRange(command)
              THEN /\ data' = Some([waypoints |-> local_points,
                                    target_command |-> OneHot(command)])
                   /\ batch_read_number' = batch_read_number + 1
                   /\ UNCHANGED data_error
              ELSE /\ data_error' = "AssertionError line 134"
                   /\ UNCHANGED <<data, batch_read_number>>
    /\ UNCHANGED <<controller, heading, owned>>

SpecData == InitData /\ [][GetItem]_vars

----------------------------------------------------------------------------
(* Vocabulary of the properties *)

\* the step is the call of run_step of the frame
TickBegins == ~ticked /\ ticked'

\* the step belongs to the tick (the call or a later statement of it)
TickStep == TickBegins \/ (pc # "idle" /\ pc' # pc)

\* the tick has finished its reads and holds the desired speed
Shaped == pc = "l247" \/ (pc = "idle" /\ ticked /\ target_cmd # None)

\* the tick of this frame has issued its commands
Commanded == pc = "idle" /\ ticked /\ target_cmd # None

\* the commands that a desired speed gives towards the target of this frame
CommandsAt(speed) ==
    LET direction == Direction(Get(target_cmd))
        direction_norm == DirectionNorm(direction)
    IN  /\ velocity_cmd =
               Some([x |-> Rat(direction.x * speed.n, direction_norm * speed.d),
                     y |-> Rat(direction.y * speed.n, direction_norm * speed.d)])
        /\ angular_cmd # None
        /\ (speed = Zero => Get(angular_cmd) = Zero)

Nominal == [n |-> target_speed, d |-> 1]

\* game time since the tick of the previous frame (0 in the first frame)
Elapsed == IF last_tick = 0 THEN 0 ELSE game_time - last_tick

----------------------------------------------------------------------------
(* C1: GOAL_REACHED is absorbing under run_step.  Once reached_goal is     *)
(* true, every step keeps it true and keeps the generated list; a tick     *)
(* returns at once with a zero linear velocity command, raises nothing and *)
(* leaves the external list unchanged; obstacle events leave both lists    *)
(* unchanged (the external list changes only by update_waypoints).         *)
C1_GoalAbsorbing ==
    [][reached_goal =>
          /\ reached_goal'
          /\ generated_waypoint_list' = generated_waypoint_list
          /\ (TickBegins =>
                 /\ velocity_cmd' = Some([x |-> Zero, y |-> Zero])
                 /\ pc' = "idle"
                 /\ error' = "none"
                 /\ waypoints' = waypoints)
          /\ (<<obstacle_distance, obstacle_actor, cb>>'
                  # <<obstacle_distance, obstacle_actor, cb>>
                 => waypoints' = waypoints)]_vars

\* a tick after the tick that reached the goal, an obstacle event delivered
C1_Witness ==
    /\ reached_goal
    /\ ticked /\ pc = "idle"
    /\ last_tick > 0
    /\ target_cmd = None
    /\ velocity_cmd = Some([x |-> Zero, y |-> Zero])
    /\ sensed /\ obstacle_distance # Infinity

(* C2: no torn reads of the obstacle reading.  In every tick the distance  *)
(* read for the threshold test (line 234) equals the distance read for the *)
(* formula (line 235), and the actor read (line 239) is the actor of the   *)
(* event whose distance line 235 read.                                     *)
C2_NoTornReads ==
    /\ (d_used # None => d_used = d_test)
    /\ used_event # "torn"

(* C3: a zero-length direction vector never causes a division fault.       *)
C3_NoDivisionFault == error # "ZeroDivisionError line 250"

(* C4: a tick that starts with a non-empty external waypoint list          *)
(* completes without raising, and if the external list becomes empty       *)
(* during the tick (also when the proximity drop removes every waypoint)   *)
(* the tick ends with reached_goal true.                                   *)
C4_RouteTickCompletes ==
    [][(TickStep /\ ~reached_goal /\ waypoints # << >>) =>
          /\ error' = "none"
          /\ (waypoints' = << >> => reached_goal' /\ pc' = "idle")]_vars

(* C5: road end is not an error.  On a tick without external waypoints,    *)
(* when the map oracle returns no successor during the generation loop     *)
(* (the buffer stays below its size, also when it stays empty), the        *)
(* generation stops and the call raises nothing.                           *)
C5_RoadEndNoError ==
    [][(TickBegins /\ ~reached_goal /\ waypoints = << >>
           /\ Len(generated_waypoint_list') < BufferSize) =>
          error' = "none"]_vars

(* C6: reached_goal becomes true in a step if and only if the step is the  *)
(* advance of a tick that pops the last external waypoint, the target      *)
(* being within 4.0; no step in free drive (empty external list) sets it.  *)
C6_GoalIffLastPop ==
    [][/\ (~reached_goal /\ reached_goal') <=>
              (pc = "l247" /\ waypoints # << >> /\ waypoints' = << >>)
       /\ (~reached_goal /\ reached_goal') =>
              /\ Len(waypoints) = 1
              /\ DirectionNorm(Direction(waypoints[1])) < ExternalReach
              /\ target_cmd' = Some(waypoints[1])
       /\ (waypoints = << >> /\ TickStep) => reached_goal' = reached_goal]_vars

\* the goal was reached by the tick of this frame; free-drive ticks before it
C6_Witness ==
    /\ reached_goal /\ Commanded
    /\ waypoints = << >>
    /\ generated_waypoint_list # << >>

\* the index of the first waypoint of the list at least 0.5 away (0: none)
FirstFar(list, location) ==
    IF \E i \in 1..Len(list) : ~Closer(list[i], location, DropDistance)
    THEN CHOOSE i \in 1..Len(list) :
             /\ ~Closer(list[i], location, DropDistance)
             /\ \A j \in 1..(i - 1) : Closer(list[j], location, DropDistance)
    ELSE 0

(* C7: proximity drop before targeting.  On a tick with a non-empty        *)
(* external list and reached_goal false, when a waypoint at distance       *)
(* >= 0.5 exists, the call removes exactly the waypoints before the first  *)
(* such waypoint, nothing is removed until the command is issued, and the  *)
(* command is computed towards that waypoint.                              *)
C7_DropBeforeTarget ==
    [][(~reached_goal /\ waypoints # << >>) =>
          /\ (TickBegins /\ FirstFar(waypoints, actor_location) > 0) =>
                 /\ waypoints' = SubSeq(waypoints,
                                        FirstFar(waypoints, actor_location),
                                        Len(waypoints))
                 /\ dropped' = FirstFar(waypoints, actor_location) - 1
                 /\ pc' = "l232"
          /\ (pc \in {"l232", "l235", "l238", "l239"} /\ pc' # pc) =>
                 waypoints' = waypoints
          /\ (pc = "l247" /\ pc' = "idle") =>
                 /\ ~Closer(waypoints[1], actor_location, DropDistance)
                 /\ target_cmd' = Some(waypoints[1])
                 /\ velocity_cmd' =
                        Some(Velocity(Direction(waypoints[1]),
                                      DirectionNorm(Direction(waypoints[1])),
                                      Get(desired_speed)))]_vars

\* a tick dropped a close waypoint and issued its command towards the next
C7_Witness ==
    /\ Commanded
    /\ dropped = 1
    /\ target_cmd = Some(Loc(0, 0, 5))
    /\ actor_location = Loc(27, 0, 0)

\* the tick read t at line 234, found it below the threshold, and read d
\* at line 235 (t = d unless a sensor event wrote the distance in between)
ReadsDistance(t, d) ==
    d_test = Some(t) /\ t < proximity_threshold /\ d_used = Some(d)

\* the distances a sensor event reports, and the default reading
Distances == { e.distance : e \in ObstacleEvents } \union { Infinity }

\* the tick read both operands of line 239 from obstacle actors
ReadsActors == actor_used # NoActor /\ actor_used_y # NoActor

\* v_other as line 239 computes it from the two reads of the obstacle actor
OtherSpeed ==
    LET x == OtherVelocity(actor_used).x
        y == OtherVelocity(actor_used_y).y
    IN  CHOOSE r \in 0..(x + y) : r * r = x * x + y * y

\* v_ego, the norm of the actor's velocity (line 237)
EgoSpeed ==
    CHOOSE r \in 0..(Abs(actor_velocity.x) + Abs(actor_velocity.y)) :
        r * r = actor_velocity.x * actor_velocity.x
                + actor_velocity.y * actor_velocity.y

\* max(a * elapsed + v_ego, 0) with a = -0.5 * (v_ego - v_other)^2 / d,
\* as the fraction (2 d v_ego - (v_ego - v_other)^2 elapsed) / (2 d)
Decelerated(d, v_ego, v_other, elapsed) ==
    LET num == 2 * d * v_ego - (v_ego - v_other) * (v_ego - v_other) * elapsed
    IN  IF num <= 0 THEN Zero ELSE Rat(num, 2 * d)

(* C8: obstacle deceleration.  With consider_obstacles enabled, when the   *)
(* tick finds the distance below proximity_threshold, reads the distance   *)
(* d > 0 and reads an obstacle actor of speed v_other < v_ego, the desired *)
(* speed of the tick's commands is max(a * elapsed + v_ego, 0) with        *)
(* a = -0.5 * (v_ego - v_other)^2 / d and elapsed the game time since the  *)
(* previous tick (0 in the first tick); it is >= 0 and, when elapsed > 0,  *)
(* less than v_ego.                                                        *)
C8_Deceleration ==
    \A t \in Distances : \A d \in Distances :
        (/\ Shaped /\ consider_obstacles
         /\ ReadsDistance(t, d) /\ d > 0
         /\ ReadsActors /\ OtherSpeed < EgoSpeed) =>
            /\ desired_speed = Some(Decelerated(d, EgoSpeed, OtherSpeed, Elapsed))
            /\ Get(desired_speed).n >= 0
            /\ (Elapsed > 0 => RatLess(Get(desired_speed), [n |-> EgoSpeed, d |-> 1]))
            /\ (Commanded => CommandsAt(Get(desired_speed)))

\* a later tick decelerated to 15/8 = 5 - (25 / 8) * 1 and issued its commands
C8_Witness ==
    /\ Commanded /\ consider_obstacles
    /\ ReadsDistance(4, 4) /\ actor_used = "walker" /\ actor_used_y = "walker"
    /\ EgoSpeed = 5 /\ Elapsed = 1
    /\ desired_speed = Some([n |-> 15, d |-> 8])

(* C9 as claimed: with consider_obstacles enabled, on every tick that      *)
(* reads an obstacle distance d <= 0, for every proximity_threshold, the   *)
(* desired speed is 0 and the linear and angular commands are zero.        *)
C9_StopAtObstacle_Claimed ==
    \A d \in { e \in Distances : e <= 0 } :
        (/\ Shaped /\ consider_obstacles
         /\ d_test = Some(d) /\ (d_used # None => d_used = Some(d))) =>
            /\ desired_speed = Some(Zero)
            /\ (Commanded =>
                   /\ velocity_cmd = Some([x |-> Zero, y |-> Zero])
                   /\ angular_cmd = Some(Zero))

(* C9 amended: with consider_obstacles enabled, on every tick that finds   *)
(* the obstacle distance below proximity_threshold and reads the distance  *)
(* d <= 0, the desired speed is 0 and the linear and angular commands are  *)
(* zero.                                                                   *)
C9_StopAtObstacle ==
    \A t \in Distances : \A d \in { e \in Distances : e <= 0 } :
        (/\ Shaped /\ consider_obstacles
         /\ ReadsDistance(t, d)) =>
            /\ desired_speed = Some(Zero)
            /\ (Commanded =>
                   /\ velocity_cmd = Some([x |-> Zero, y |-> Zero])
                   /\ angular_cmd = Some(Zero))

\* a tick of a moving controller read distance 0 below the threshold 2 and
\* commanded a stop
C9_Witness ==
    /\ Commanded /\ consider_obstacles
    /\ ReadsDistance(0, 0) /\ proximity_threshold = 2
    /\ target_speed > 0
    /\ velocity_cmd = Some([x |-> Zero, y |-> Zero])
    /\ angular_cmd = Some(Zero)

(* C10: no adaptation.  The desired speed of a tick is the nominal         *)
(* target_speed when consider_obstacles is false, or the distance the tick *)
(* reads is >= proximity_threshold (the default reading +infinity          *)
(* included), or the tick finds the distance below proximity_threshold,    *)
(* reads the distance d > 0 and reads an obstacle actor of speed           *)
(* v_other >= v_ego; the commands are then those of the nominal speed.     *)
C10_NoAdaptation ==
    (/\ Shaped
     /\ \/ ~consider_obstacles
        \/ \E t \in Distances :
               d_test = Some(t) /\ t >= proximity_threshold
        \/ \E t \in Distances : \E d \in Distances :
               /\ ReadsDistance(t, d) /\ d > 0
               /\ ReadsActors /\ OtherSpeed >= EgoSpeed) =>
        /\ desired_speed = Some(Nominal)
        /\ (Commanded => CommandsAt(Nominal))

\* a tick read an obstacle as fast as the ego actor and kept the nominal speed
C10_Witness ==
    /\ Commanded /\ consider_obstacles
    /\ ReadsDistance(4, 4) /\ actor_used = "car" /\ actor_used_y = "car"
    /\ EgoSpeed = 5
    /\ desired_speed = Some(Nominal) /\ target_speed = 8

----------------------------------------------------------------------------
(* C11 as claimed: for every heading difference delta_yaw the wrapped      *)
(* value used for the angular velocity command lies in (-180, 180].        *)
C11_WrapHalfOpen_Claimed ==
    wrapped_yaw # None =>
        Get(wrapped_yaw) > -180 /\ Get(wrapped_yaw) <= 180

(* C11 amended: for every heading difference delta_yaw the wrapped value   *)
(* is the same heading (it differs from delta_yaw by a multiple of 360)    *)
(* and lies in the closed interval [-180, 180]; it is -180 only for        *)
(* delta_yaw exactly -180.                                                 *)
C11_WrapClosed ==
    wrapped_yaw # None =>
        /\ Get(wrapped_yaw) >= -180 /\ Get(wrapped_yaw) <= 180
        /\ (Get(wrapped_yaw) - heading_error) % 360 = 0
        /\ (Get(wrapped_yaw) = -180 => heading_error = -180)

\* the modulo pass and the branch correction both acted: -721 wraps to -1
C11_Witness ==
    heading_error = -721 /\ wrapped_yaw = Some(-1)

----------------------------------------------------------------------------
\* the stored obstacle reading
Reading == <<obstacle_distance, obstacle_actor>>

(* C12: sensor reading persistence.  The stored reading (distance, actor)  *)
(* changes only in a step of _on_obstacle on a non-empty event, which      *)
(* stores that event's distance (line 118) or actor (line 119); an empty   *)
(* event changes nothing and raises nothing; no step of the tick and no    *)
(* step of the simulator changes it; and every read of the tick returns    *)
(* the reading stored at that moment, however old (no expiry).             *)
C12_ReadingPersists ==
    [][/\ Reading' # Reading =>
              \/ /\ cb = None /\ cb' # None
                 /\ obstacle_distance' = Get(cb').distance
                 /\ obstacle_actor' = obstacle_actor
              \/ /\ cb # None /\ cb' = None
                 /\ obstacle_actor' = Get(cb).other_actor
                 /\ obstacle_distance' = obstacle_distance
       /\ (~sensed /\ sensed' /\ cb' = None) =>
              Reading' = Reading /\ error' = error
       /\ (TickStep \/ game_time' # game_time) => Reading' = Reading
       /\ (pc = "l232" /\ pc' # pc /\ consider_obstacles) =>
              d_test' = Some(obstacle_distance)
       /\ (pc = "l235" /\ pc' # pc) => d_used' = Some(obstacle_distance)
       /\ (pc = "l238" /\ pc' # pc) => actor_used' = obstacle_actor
       /\ (pc = "l239" /\ pc' # pc) => actor_used_y' = obstacle_actor]_vars

\* a tick of a later frame, in which no event was handled, has used the
\* reading (4, walker) of an earlier frame
C12_Witness ==
    /\ Commanded /\ last_tick > 0 /\ ~sensed
    /\ d_test = Some(4) /\ d_used = Some(4)
    /\ actor_used = "walker" /\ actor_used_y = "walker"
    /\ Reading = <<4, "walker">>

----------------------------------------------------------------------------
(* C13: reset is idempotent.  After the first call of reset and after the  *)
(* second, from any state of a controller with or without camera and       *)
(* obstacle sensor, the camera and obstacle-sensor references are cleared, *)
(* each sensor the controller owned has been destroyed exactly once and no *)
(* other sensor at all (no destroy() on a cleared reference, so no error). *)
C13_ResetIdempotent ==
    resets >= 1 =>
        /\ camera = NoSensor
        /\ obstacle_sensor = NoSensor
        /\ destroyed["camera"] = (IF attach_camera THEN 1 ELSE 0)
        /\ destroyed["obstacle_sensor"] = (IF consider_obstacles THEN 1 ELSE 0)
        /\ error = "none"

\* reset was called twice on a controller that owned both sensors and had
\* ticked in free drive
C13_Witness ==
    /\ resets = 2
    /\ attach_camera /\ consider_obstacles
    /\ destroyed = [s \in {"camera", "obstacle_sensor"} |-> 1]
    /\ generated_waypoint_list # << >>
    /\ obstacle_distance # Infinity

----------------------------------------------------------------------------
(* C14: the goal is eventually reached.  With a non-empty external list    *)
(* supplied, a positive nominal speed, obstacles not considered and the    *)
(* actor moving as commanded, the controller eventually pops the final     *)
(* waypoint and reached_goal becomes true; so, until reached_goal is true, *)
(* no tick ends in an exception (after which the scheduler never ticks the *)
(* controller again) and the external list is not emptied without the      *)
(* goal being reached.                                                     *)
C14_GoalStaysReachable ==
    (game_time > 1 \/ ticked) =>
        \/ reached_goal
        \/ error = "none" /\ waypoints # << >>

----------------------------------------------------------------------------
(* C15: invalid command codes fail fast.  For every command code outside   *)
(* {-1, 1, 2, 3, 4, 5, 6} (0, 7 and the negative codes other than -1       *)
(* included), __getitem__ raises an error and produces no one-hot vector:  *)
(* no sample with such a code ever has a returned dict.                    *)
C15_InvalidCodesFail ==
    sample.command \notin CommandCodes => data = None

----------------------------------------------------------------------------
(* C16: valid command one-hot encoding.  For every command code c of       *)
(* {-1, 1, 2, 3, 4, 5, 6}, __getitem__ raises nothing, and the             *)
(* target_command it returns has width 6 and exactly one element equal to  *)
(* 1, at zero-based index (c = -1 ? 4 : c) - 1, every other element 0.     *)
C16_OneHot ==
    sample.command \in CommandCodes =>
        /\ data_error = "none"
        /\ data # None =>
              LET target_command == Get(data).target_command
                  index == (IF sample.command = -1 THEN 4 ELSE sample.command) - 1
              IN  /\ Len(target_command) = 6
                  /\ Cardinality({ i \in 1..6 : target_command[i] = 1 }) = 1
                  /\ \A i \in 1..6 :
                        target_command[i] = (IF i = index + 1 THEN 1 ELSE 0)

\* the sample with the code VOID was read: index 3 is set
C16_Witness ==
    /\ sample.command = -1
    /\ data # None
    /\ Get(data).target_command = <<0, 0, 0, 1, 0, 0>>
    /\ batch_read_number = 1

----------------------------------------------------------------------------
----------------------------------------------------------------------------
(* C18: round-trip law of the frame transform.  For all world points P,    *)
(* agent positions X and headings theta (integer points, headings that are *)
(* whole quarter turns), mapping P into the agent frame (subtract X,       *)
(* multiply by the transpose of the rotation built from pi/2 + theta) and  *)
(* back with the non-transposed rotation plus X returns P: each of the     *)
(* four waypoints __getitem__ returns maps back to its future point.       *)
C18_RoundTrip ==
    data # None =>
        \A i \in 1..4 :
            ToWorldFrame(Get(data).waypoints[i], sample.x, sample.y,
                         Get(sample.theta))
                = [x |-> sample.future_x[i], y |-> sample.future_y[i]]

\* a sample read with the ego vehicle off the origin, turned by a quarter
\* turn, and a future track that leaves along x
C18_Witness ==
    /\ data # None
    /\ sample.x = 1 /\ sample.y = -2
    /\ sample.theta = Some(1)
    /\ sample.future_x = <<4, 5, 6, 7>>
    /\ sample.future_y = <<-5, -5, -5, -5>>
    /\ Get(data).waypoints[1] = <<3, -3>>

----------------------------------------------------------------------------
(* C19: hand-computed frame example.  For an agent at X = (0, 0) with      *)
(* heading theta = 0 and a world point P = (x = 0, y = 5), the relative    *)
(* waypoint of __getitem__ has forward (local +y, the second) component 5  *)
(* and lateral (the first) component 0.                                    *)
Example ==
    /\ data # None
    /\ sample.x = 0 /\ sample.y = 0
    /\ sample.theta = Some(0)
    /\ sample.future_x[1] = 0 /\ sample.future_y[1] = 5

C19_Example_Claimed ==
    Example => Get(data).waypoints[1] = <<0, 5>>

(* C19, as the code has it: the relative waypoint of the example has       *)
(* lateral component 0 and local y component -5.                           *)
C19_Example ==
    Example => Get(data).waypoints[1] = <<0, -5>>

\* the sample of the example was read, with a valid command
C19_Witness ==
    /\ Example
    /\ sample.command = 3
    /\ sample.future_y = <<5, 6, 7, 8>>
    /\ Get(data).waypoints[1][2] = -5

----------------------------------------------------------------------------
(* C20: waypoint advance.  On every tick that issues a command, the head   *)
(* of the active list is removed if and only if the direction_norm         *)
(* computed for that command is below the closeness threshold (2.0 for the *)
(* generated list, 4.0 for the external list); the removal happens after   *)
(* the commands were emitted, which aim at the head that is removed; and   *)
(* this step removes at most one waypoint per tick.  A tick that commands  *)
(* the stop at the goal removes nothing.                                   *)
C20_WaypointAdvance ==
    [][ /\ (pc = "l247" /\ pc' = "idle") =>
              LET external == waypoints # << >>
                  list == IF external THEN waypoints ELSE generated_waypoint_list
                  list_after == IF external THEN waypoints'
                                ELSE generated_waypoint_list'
                  threshold == IF external THEN 40 ELSE 20
                  direction_norm == DirectionNorm(Direction(Get(target_cmd')))
              IN  /\ velocity_cmd' # None /\ angular_cmd' # None
                  /\ target_cmd' = Some(Head(list))
                  /\ direction_norm < threshold => list_after = Tail(list)
                  /\ ~(direction_norm < threshold) => list_after = list
                  /\ Len(list_after) >= Len(list) - 1
                  /\ external => generated_waypoint_list' = generated_waypoint_list
                  /\ ~external => waypoints' = waypoints
        /\ (TickBegins /\ reached_goal) =>
              /\ waypoints' = waypoints
              /\ generated_waypoint_list' = generated_waypoint_list ]_vars

\* a tick on a route of two waypoints aimed at the first one, 3.0 away, and
\* removed it; the other tick of the behaviour, in free drive, aimed at a
\* generated waypoint 3.0 away and kept it
C20_Witness ==
    /\ Commanded
    /\ ~reached_goal
    /\ dropped = 0
    /\ Len(waypoints) = 1
    /\ target_cmd = Some(Loc(30, 0, 0))
    /\ actor_location = Loc(0, 0, 0)
    /\ waypoints[1] # Loc(30, 0, 0)
    /\ generated_waypoint_list # << >>
    /\ DirectionNorm(Direction(generated_waypoint_list[1])) >= 20

----------------------------------------------------------------------------
(* C21: FIFO consumption without revisiting.  The external list is at      *)
(* every moment a suffix of the list that was supplied, and the waypoints  *)
(* targeted by successive ticks are non-decreasing in position of the      *)
(* supplied list: a list is supplied only to a controller whose list is    *)
(* empty, every other step that changes the list leaves a proper suffix of *)
(* it, and every command on a route aims at the head of the list as it     *)
(* stands, so a waypoint that was dropped or popped is not aimed at again.  *)
Suffixes(list) == { SubSeq(list, k + 1, Len(list)) : k \in 0..Len(list) }

C21_FifoNoRevisit ==
    [][ /\ waypoints' # waypoints =>
              \/ waypoints = << >> /\ ~TickStep
              \/ TickStep /\ waypoints' \in Suffixes(waypoints)
        /\ (pc = "l247" /\ pc' = "idle" /\ waypoints # << >>) =>
              /\ target_cmd' = Some(waypoints[1])
              /\ waypoints' \in Suffixes(waypoints)
        /\ (TickBegins /\ waypoints # << >> /\ ~reached_goal /\ error' = "none") =>
              /\ waypoints' \in Suffixes(waypoints)
              /\ waypoints' # << >> ]_vars

\* of a supplied route of two waypoints, the tick dropped the first, close
\* one, aimed at the second and popped it
C21_Witness ==
    /\ Commanded
    /\ dropped = 1
    /\ target_cmd = Some(Loc(0, 0, 5))
    /\ actor_location = Loc(27, 0, 0)
    /\ waypoints = << >>
    /\ reached_goal

----------------------------------------------------------------------------
(* C22: generated buffer bound.  In every reachable state the generated    *)
(* waypoint list holds at most 50 points; after the generation step of a   *)
(* free-drive tick it holds exactly 50 points unless the oracle returned   *)
(* no successor; and each appended point is the oracle's first successor,  *)
(* 3.0 units ahead, of the previously last point (of the road point of the *)
(* actor, when the list was empty).  No other step extends the list.       *)
C22_BufferBound ==
    [][ LET old == generated_waypoint_list
            new == generated_waypoint_list'
            Previous(i) == IF i = 1 THEN GetWaypoint(actor_location)
                           ELSE GetWaypoint(new[i - 1])
        IN  /\ Len(old) <= 50 /\ Len(new) <= 50
            /\ (TickBegins /\ waypoints = << >> /\ ~reached_goal) =>
                  /\ Len(new) >= Len(old)
                  /\ SubSeq(new, 1, Len(old)) = old
                  /\ \A i \in (Len(old) + 1)..Len(new) :
                        /\ NextWaypoints(Previous(i), 30) # << >>
                        /\ new[i] = NextWaypoints(Previous(i), 30)[1]
                  /\ \/ Len(new) = 50
                     \/ NextWaypoints(Previous(Len(new) + 1), 30) = << >>
            /\ ~(TickBegins /\ waypoints = << >> /\ ~reached_goal) =>
                  Len(new) <= Len(old) ]_vars

\* the third free-drive tick refilled the buffer, of which the second tick
\* had popped the head, up to 50 points, the last one 153.0 down the road
C22_Witness ==
    /\ ticked /\ pc = "l232"
    /\ road_end = 1600
    /\ Len(generated_waypoint_list) = 50
    /\ generated_waypoint_list[1] = Loc(60, 0, 0)
    /\ generated_waypoint_list[50] = Loc(1530, 0, 0)

----------------------------------------------------------------------------
(* C23: exactly one waypoint list is active per tick and the external list *)
(* wins.  On a tick with a non-empty external list the generated list is   *)
(* neither extended, targeted nor consumed, and the heading error of the   *)
(* command is the angle of the direction vector minus the yaw of the       *)
(* actor; on a tick with an empty external list the target is the head of  *)
(* the generated list, the heading error is the heading of the road at the *)
(* target minus the yaw of the actor, and the external list stays empty.   *)
C23_OneListActive ==
    [][ LET issued == pc = "l247" /\ pc' = "idle"
            direction == Direction(Get(target_cmd'))
            direction_norm == DirectionNorm(direction)
            Angular(delta_yaw) ==
                Some(AngularVelocity(WrapYaw(delta_yaw), direction_norm,
                                     Get(desired_speed)))
        IN  /\ (TickStep /\ waypoints # << >>) =>
                  generated_waypoint_list' = generated_waypoint_list
            /\ (issued /\ waypoints # << >>) =>
                  /\ target_cmd' = Some(waypoints[1])
                  /\ angular_cmd' =
                         Angular(Atan2Deg(direction.y, direction.x) - actor_yaw)
            /\ (TickStep /\ waypoints = << >>) => waypoints' = << >>
            /\ (issued /\ waypoints = << >>) =>
                  /\ target_cmd' = Some(generated_waypoint_list[1])
                  /\ angular_cmd' =
                         Angular(RoadYaw(Get(target_cmd')) - actor_yaw) ]_vars

\* a tick on a route aimed at a waypoint behind the actor while generated
\* waypoints were buffered: the heading error is 180 - (-170), wrapped to
\* -10, where the heading of the road would give 170
C23_Witness ==
    /\ Commanded
    /\ target_speed = 8
    /\ desired_speed = Some(Nominal)
    /\ actor_location = Loc(57, 0, 0) /\ actor_yaw = -170
    /\ target_cmd = Some(Loc(30, 0, 0))
    /\ waypoints = << Loc(30, 0, 0) >>
    /\ generated_waypoint_list # << >>
    /\ angular_cmd = Some(AngularVelocity(-10, 27, Nominal))
    /\ angular_cmd # Some(AngularVelocity(170, 27, Nominal))

=============================================================================
